---- MODULE Spec2Model ----
(***************************************************************************)
(* Pool ledger, fee ledger, swap engine and hedging margin engine of the   *)
(* stablecoin-v2 contract (actors/keepers.rs, actors/stable_seekers.rs).   *)
(* Amounts are BigUint values: non-negative integers whose subtraction      *)
(* aborts the transaction when the result would be negative.               *)
(***************************************************************************)
EXTENDS Integers, FiniteSets, TLC

\* math::ONE, the fixed-point scale S (scaled down from 10^18).
ONE == 20

\* Bounds of the model.
MaxCollateral == 2
MaxPayment == 2
MaxPositions == 2
MaxLiquidity == 1
MaxCalls == 4
Unbounded == MaxCalls + 1

Collaterals == {"A", "B"}
StablecoinTokenId == "USD"
PaymentTokens == Collaterals \cup {StablecoinTokenId}

\* Price Feed quotes: 1.0 and 2.0 dollars; NoPrice stands for "no fresh quote".
Prices == {20, 40}
NoPrice == 0
MaxPrice == CHOOSE v \in Prices : \A w \in Prices : w <= v

\* Outputs of the fee curve: 0% and 50%.
FeePercentages == {0, 10}
Precisions == {1, 2}
CoveredAmounts == {1, 5}
DepositAmounts == {1}
NoAmount == -1

\* Storage values read by the keepers (set by endpoints outside the core).
liq_provider_fee_reward_percentage == 10
hedging_maintenance_ratio == 1
limit_hedge_percentage == 20

VARIABLES
    pool,                             \* collateral id -> Pool
    current_fee_configuration,        \* collateral id -> CurrentFeeConfiguration
    accumulated_tx_fees,              \* collateral id -> BigUint
    collateral_amount_for_liq_token,  \* liquidity SFT nonce -> BigUint
    hedging_position,                 \* NFT nonce -> HedgingPosition (or empty)
    last_nft_nonce,                   \* nonce of the last hedging NFT created
    collateral_whitelist,             \* set of accepted collateral ids
    collateral_precision,             \* collateral id -> precision
    price,                            \* Price Feed: collateral id -> current quote
    last,                             \* the last call: endpoint, arguments, outcome
    calls_left                        \* calls still explored (Unbounded: no limit)

vars == << pool, current_fee_configuration, accumulated_tx_fees,
           collateral_amount_for_liq_token, hedging_position, last_nft_nonce,
           collateral_whitelist, collateral_precision, price, last, calls_left >>

Nonces == 1 .. MaxPositions

\* ------------------------------------------------------------ FixedPoint math

multiply(first, second, precision) == (first * second) \div precision

divide(first, second, precision) == (first * precision) \div second

calculate_ratio(first, second) == (first * ONE) \div second

calculate_percentage_of(percentage, number) == (percentage * number) \div ONE

\* ------------------------------------------------------------ storage

EmptyPool ==
    [ collateral_amount |-> 0, stablecoin_amount |-> 0,
      collateral_reserves |-> 0, total_covered_value_in_stablecoin |-> 0 ]

EmptyFeeConfiguration ==
    [ hedging_ratio |-> 0, mint_fee_percentage |-> 0, burn_fee_percentage |-> 0 ]

EmptyPosition ==
    [ exists |-> FALSE, collateral_id |-> "", deposit_amount |-> 0,
      covered_amount |-> 0, oracle_value_at_deposit_time |-> 0,
      withdraw_amount_after_force_close |-> NoAmount ]

\* One liquidity SFT nonce per collateral.
liq_sft_nonce_for_collateral(c) == IF c = "A" THEN 1 ELSE 2

LiqNonces == {liq_sft_nonce_for_collateral(c) : c \in Collaterals}

\* The contract storage the endpoints read and write, as one record.
Storage ==
    [ pool |-> pool, cfg |-> current_fee_configuration, fees |-> accumulated_tx_fees,
      liq |-> collateral_amount_for_liq_token, pos |-> hedging_position ]

Ok(s, out) == [ err |-> "ok", st |-> s, out |-> out ]

Fail(e, s) == [ err |-> e, st |-> s, out |-> 0 ]

\* ------------------------------------------------------------ rebalance_pool

\* Faulty variant: stablecoin_amount is set in the depreciation branch only.
rebalance_closure_skip_set(p, value, precision) ==
    LET pool_value_in_dollars == multiply(p.collateral_amount, value, precision) IN
    IF pool_value_in_dollars > p.stablecoin_amount
    THEN [ err |-> "ok",
           pool |-> [ p EXCEPT !.collateral_reserves =
                        @ + divide(pool_value_in_dollars - p.stablecoin_amount,
                                   value, precision) ] ]
    ELSE LET missing_collateral_amount ==
                 divide(p.stablecoin_amount - pool_value_in_dollars, value, precision) IN
         IF missing_collateral_amount <= p.collateral_reserves
         THEN [ err |-> "ok",
                pool |-> [ p EXCEPT !.collateral_reserves = @ - missing_collateral_amount,
                                    !.stablecoin_amount = pool_value_in_dollars ] ]
         ELSE [ err |-> "InsufficientReserves", pool |-> p ]

\* Faulty variant: stablecoin_amount is set in the appreciation branch only.
rebalance_closure_stale_after_draw(p, value, precision) ==
    LET pool_value_in_dollars == multiply(p.collateral_amount, value, precision) IN
    IF pool_value_in_dollars > p.stablecoin_amount
    THEN [ err |-> "ok",
           pool |-> [ p EXCEPT !.collateral_reserves =
                        @ + divide(pool_value_in_dollars - p.stablecoin_amount,
                                   value, precision),
                               !.stablecoin_amount = pool_value_in_dollars ] ]
    ELSE LET missing_collateral_amount ==
                 divide(p.stablecoin_amount - pool_value_in_dollars, value, precision) IN
         IF missing_collateral_amount <= p.collateral_reserves
         THEN [ err |-> "ok",
                pool |-> [ p EXCEPT !.collateral_reserves = @ - missing_collateral_amount ] ]
         ELSE [ err |-> "InsufficientReserves", pool |-> p ]

\* Faulty variant: the reserves check is dropped and the draw saturates at zero.
rebalance_closure_no_check(p, value, precision) ==
    LET pool_value_in_dollars == multiply(p.collateral_amount, value, precision) IN
    IF pool_value_in_dollars > p.stablecoin_amount
    THEN [ err |-> "ok",
           pool |-> [ p EXCEPT !.collateral_reserves =
                        @ + divide(pool_value_in_dollars - p.stablecoin_amount,
                                   value, precision),
                               !.stablecoin_amount = pool_value_in_dollars ] ]
    ELSE LET missing_collateral_amount ==
                 divide(p.stablecoin_amount - pool_value_in_dollars, value, precision) IN
         [ err |-> "ok",
           pool |-> [ p EXCEPT !.collateral_reserves =
                        IF missing_collateral_amount <= @
                        THEN @ - missing_collateral_amount ELSE 0,
                               !.stablecoin_amount = pool_value_in_dollars ] ]

\* Faulty variant: the credit to the reserves is rounded up instead of truncated.
rebalance_closure_round_up(p, value, precision) ==
    LET pool_value_in_dollars == multiply(p.collateral_amount, value, precision) IN
    IF pool_value_in_dollars > p.stablecoin_amount
    THEN [ err |-> "ok",
           pool |-> [ p EXCEPT !.collateral_reserves =
                        @ + (((pool_value_in_dollars - p.stablecoin_amount) * precision
                                + value - 1) \div value),
                               !.stablecoin_amount = pool_value_in_dollars ] ]
    ELSE LET missing_collateral_amount ==
                 divide(p.stablecoin_amount - pool_value_in_dollars, value, precision) IN
         IF missing_collateral_amount <= p.collateral_reserves
         THEN [ err |-> "ok",
                pool |-> [ p EXCEPT !.collateral_reserves = @ - missing_collateral_amount,
                                    !.stablecoin_amount = pool_value_in_dollars ] ]
         ELSE [ err |-> "InsufficientReserves", pool |-> p ]

\* The closure rebalance_pool passes to update_pool.
\* Faulty variant: half of the missing collateral is drawn from the reserves.
rebalance_closure_half_draw(p, value, precision) ==
    LET pool_value_in_dollars == multiply(p.collateral_amount, value, precision) IN
    IF pool_value_in_dollars > p.stablecoin_amount
    THEN [ err |-> "ok",
           pool |-> [ p EXCEPT !.collateral_reserves =
                        @ + divide(pool_value_in_dollars - p.stablecoin_amount,
                                   value, precision),
                               !.stablecoin_amount = pool_value_in_dollars ] ]
    ELSE LET missing_collateral_amount ==
                 divide(p.stablecoin_amount - pool_value_in_dollars, value, precision)
                     \div 2 IN
         IF missing_collateral_amount <= p.collateral_reserves
         THEN [ err |-> "ok",
                pool |-> [ p EXCEPT !.collateral_reserves = @ - missing_collateral_amount,
                                    !.stablecoin_amount = pool_value_in_dollars ] ]
         ELSE [ err |-> "InsufficientReserves", pool |-> p ]

rebalance_closure(p, value, precision) ==
    LET pool_value_in_dollars == multiply(p.collateral_amount, value, precision) IN
    IF pool_value_in_dollars > p.stablecoin_amount
    THEN LET extra_collateral_in_dollars == pool_value_in_dollars - p.stablecoin_amount
             extra_collateral_amount ==
                 divide(extra_collateral_in_dollars, value, precision) IN
         [ err |-> "ok",
           pool |-> [ p EXCEPT !.collateral_reserves = @ + extra_collateral_amount,
                               !.stablecoin_amount = pool_value_in_dollars ] ]
    ELSE LET missing_collateral_in_dollars == p.stablecoin_amount - pool_value_in_dollars
             missing_collateral_amount ==
                 divide(missing_collateral_in_dollars, value, precision) IN
         IF missing_collateral_amount <= p.collateral_reserves
         THEN [ err |-> "ok",
                pool |-> [ p EXCEPT !.collateral_reserves = @ - missing_collateral_amount,
                                    !.stablecoin_amount = pool_value_in_dollars ] ]
         ELSE [ err |-> "InsufficientReserves", pool |-> p ]

rebalance_pool(s, collateral_id) ==
    IF collateral_id \notin collateral_whitelist THEN Fail("UnknownCollateral", s)
    ELSE IF price[collateral_id] = NoPrice THEN Fail("PriceUnavailable", s)
    ELSE LET r == rebalance_closure(s.pool[collateral_id], price[collateral_id],
                                    collateral_precision[collateral_id]) IN
         IF r.err = "ok"
         THEN Ok([ s EXCEPT !.pool[collateral_id] = r.pool ], 0)
         ELSE Fail(r.err, s)

\* ------------------------------------------------------------ fee ledger

calculate_current_hedging_ratio(s, collateral_id) ==
    LET p == s.pool[collateral_id] IN
    IF p.stablecoin_amount = 0 THEN 0
    ELSE calculate_ratio(p.total_covered_value_in_stablecoin, p.stablecoin_amount)

\* Faulty variant: the configuration of every collateral is overwritten.
update_fees_percentage_everywhere(s, collateral_id, mint_fee_percentage, burn_fee_percentage) ==
    Ok([ s EXCEPT !.cfg = [ c \in Collaterals |->
           [ hedging_ratio |-> calculate_current_hedging_ratio(s, collateral_id),
             mint_fee_percentage |-> mint_fee_percentage,
             burn_fee_percentage |-> burn_fee_percentage ] ] ], 0)

\* Faulty variant: the two percentages are overwritten, the hedging ratio is kept.
update_fees_percentage_keeps_ratio(s, collateral_id, mint_fee_percentage, burn_fee_percentage) ==
    Ok([ s EXCEPT !.cfg[collateral_id] =
           [ hedging_ratio |-> s.cfg[collateral_id].hedging_ratio,
             mint_fee_percentage |-> mint_fee_percentage,
             burn_fee_percentage |-> burn_fee_percentage ] ], 0)

\* mint_fee_percentage and burn_fee_percentage are the fee curve's answers.
update_fees_percentage(s, collateral_id, mint_fee_percentage, burn_fee_percentage) ==
    Ok([ s EXCEPT !.cfg[collateral_id] =
           [ hedging_ratio |-> calculate_current_hedging_ratio(s, collateral_id),
             mint_fee_percentage |-> mint_fee_percentage,
             burn_fee_percentage |-> burn_fee_percentage ] ], 0)

\* Faulty variant: the whole accumulated amount goes to the reserves as well.
split_fees_double_credit(s, collateral_id) ==
    LET accumulated_fees == s.fees[collateral_id]
        liq_provider_reward ==
            calculate_percentage_of(liq_provider_fee_reward_percentage, accumulated_fees)
        sft_nonce == liq_sft_nonce_for_collateral(collateral_id) IN
    Ok([ s EXCEPT !.liq[sft_nonce] = @ + liq_provider_reward,
                  !.pool[collateral_id].collateral_reserves = @ + accumulated_fees,
                  !.fees[collateral_id] = 0 ], 0)

\* Faulty variant: the accumulated fees are split but not cleared.
split_fees_keeps_fees(s, collateral_id) ==
    LET accumulated_fees == s.fees[collateral_id]
        liq_provider_reward ==
            calculate_percentage_of(liq_provider_fee_reward_percentage, accumulated_fees)
        sft_nonce == liq_sft_nonce_for_collateral(collateral_id)
        leftover == accumulated_fees - liq_provider_reward IN
    Ok([ s EXCEPT !.liq[sft_nonce] = @ + liq_provider_reward,
                  !.pool[collateral_id].collateral_reserves = @ + leftover ], 0)

split_fees(s, collateral_id) ==
    LET accumulated_fees == s.fees[collateral_id]
        liq_provider_reward ==
            calculate_percentage_of(liq_provider_fee_reward_percentage, accumulated_fees)
        sft_nonce == liq_sft_nonce_for_collateral(collateral_id) IN
    IF liq_provider_reward > accumulated_fees THEN Fail("BigUintSubNegative", s)
    ELSE LET leftover == accumulated_fees - liq_provider_reward IN
         Ok([ s EXCEPT !.liq[sft_nonce] = @ + liq_provider_reward,
                       !.pool[collateral_id].collateral_reserves = @ + leftover,
                       !.fees[collateral_id] = 0 ], 0)

\* ------------------------------------------------------------ swap engine

get_mint_transaction_fees_percentage(s, collateral_id) ==
    s.cfg[collateral_id].mint_fee_percentage

get_burn_transaction_fees_percentage(s, collateral_id) ==
    s.cfg[collateral_id].burn_fee_percentage

\* Faulty variant: the stablecoin minted is priced on the payment before the fee.
sell_collateral_gross(s, payment_token, payment_amount, min_amount_out, mint_ok) ==
    IF payment_token \notin collateral_whitelist THEN Fail("UnknownCollateral", s)
    ELSE IF price[payment_token] = NoPrice THEN Fail("PriceUnavailable", s)
    ELSE
    LET collateral_value_in_dollars == price[payment_token]
        fees_amount_in_collateral ==
            calculate_percentage_of(s.cfg[payment_token].mint_fee_percentage,
                                    payment_amount) IN
    IF fees_amount_in_collateral > payment_amount THEN Fail("BigUintSubNegative", s)
    ELSE
    LET collateral_amount == payment_amount - fees_amount_in_collateral
        stablecoin_amount == collateral_value_in_dollars * payment_amount
        s1 == [ s EXCEPT !.pool[payment_token].collateral_amount = @ + collateral_amount,
                         !.pool[payment_token].stablecoin_amount = @ + stablecoin_amount ]
        s2 == [ s1 EXCEPT !.fees[payment_token] = @ + fees_amount_in_collateral ] IN
    IF stablecoin_amount < min_amount_out THEN Fail("BelowMinimumOutput", s)
    ELSE IF ~mint_ok THEN Fail("LocalMintRoleMissing", s2)
    ELSE Ok(s2, stablecoin_amount)

\* Faulty variant: the fee is taken from the payment but not accumulated.
sell_collateral_fee_lost(s, payment_token, payment_amount, min_amount_out, mint_ok) ==
    IF payment_token \notin collateral_whitelist THEN Fail("UnknownCollateral", s)
    ELSE IF price[payment_token] = NoPrice THEN Fail("PriceUnavailable", s)
    ELSE
    LET collateral_value_in_dollars == price[payment_token]
        transaction_fees_percentage == get_mint_transaction_fees_percentage(s, payment_token)
        fees_amount_in_collateral ==
            calculate_percentage_of(transaction_fees_percentage, payment_amount) IN
    IF fees_amount_in_collateral > payment_amount THEN Fail("BigUintSubNegative", s)
    ELSE
    LET collateral_amount == payment_amount - fees_amount_in_collateral
        stablecoin_amount == collateral_value_in_dollars * collateral_amount
        s1 == [ s EXCEPT !.pool[payment_token].collateral_amount = @ + collateral_amount,
                         !.pool[payment_token].stablecoin_amount = @ + stablecoin_amount ]
        s2 == s1 IN
    IF stablecoin_amount < min_amount_out THEN Fail("BelowMinimumOutput", s)
    ELSE IF ~mint_ok THEN Fail("LocalMintRoleMissing", s2)
    ELSE Ok(s2, stablecoin_amount)

\* mint_ok: whether the Token Ledger mints and sends the stablecoin.
sell_collateral(s, payment_token, payment_amount, min_amount_out, mint_ok) ==
    IF payment_token \notin collateral_whitelist THEN Fail("UnknownCollateral", s)
    ELSE IF price[payment_token] = NoPrice THEN Fail("PriceUnavailable", s)
    ELSE
    LET collateral_value_in_dollars == price[payment_token]
        transaction_fees_percentage == get_mint_transaction_fees_percentage(s, payment_token)
        fees_amount_in_collateral ==
            calculate_percentage_of(transaction_fees_percentage, payment_amount) IN
    IF fees_amount_in_collateral > payment_amount THEN Fail("BigUintSubNegative", s)
    ELSE
    LET collateral_amount == payment_amount - fees_amount_in_collateral
        stablecoin_amount == collateral_value_in_dollars * collateral_amount
        s1 == [ s EXCEPT !.pool[payment_token].collateral_amount = @ + collateral_amount,
                         !.pool[payment_token].stablecoin_amount = @ + stablecoin_amount ]
        s2 == [ s1 EXCEPT !.fees[payment_token] = @ + fees_amount_in_collateral ] IN
    IF stablecoin_amount < min_amount_out THEN Fail("BelowMinimumOutput", s)
    ELSE IF ~mint_ok THEN Fail("LocalMintRoleMissing", s2)
    ELSE Ok(s2, stablecoin_amount)

\* Faulty variant: the two balance checks of the Pool update are dropped.
buy_closure_no_check(p, collateral_amount, payment_amount) ==
    [ err |-> "ok",
      pool |-> [ p EXCEPT !.collateral_amount = @ - collateral_amount,
                          !.stablecoin_amount = @ - payment_amount ] ]

\* The closure buy_collateral passes to update_pool.
buy_closure(p, collateral_amount, payment_amount) ==
    IF ~(p.collateral_amount >= collateral_amount)
    THEN [ err |-> "InsufficientPoolCollateral", pool |-> p ]
    ELSE IF ~(p.stablecoin_amount >= payment_amount)
    THEN [ err |-> "ExcessiveStablecoinPayment", pool |-> p ]
    ELSE [ err |-> "ok",
           pool |-> [ p EXCEPT !.collateral_amount = @ - collateral_amount,
                               !.stablecoin_amount = @ - payment_amount ] ]

\* ledger_ok: whether the Token Ledger burns the payment and sends the collateral.
\* Faulty variant: the whitelist is checked before the payment token.
buy_collateral_whitelist_first(s, payment_token, payment_amount, collateral_id, min_amount_out, ledger_ok) ==
    IF collateral_id \notin collateral_whitelist THEN Fail("UnknownCollateral", s)
    ELSE IF payment_token # StablecoinTokenId THEN Fail("WrongPaymentToken", s)
    ELSE IF price[collateral_id] = NoPrice THEN Fail("PriceUnavailable", s)
    ELSE
    LET collateral_value_in_dollars == price[collateral_id]
        total_value_in_collateral == payment_amount \div collateral_value_in_dollars
        transaction_fees_percentage == get_burn_transaction_fees_percentage(s, collateral_id)
        fees_amount_in_collateral ==
            calculate_percentage_of(transaction_fees_percentage, total_value_in_collateral) IN
    IF fees_amount_in_collateral > total_value_in_collateral
    THEN Fail("BigUintSubNegative", s)
    ELSE
    LET collateral_amount == total_value_in_collateral - fees_amount_in_collateral
        r == buy_closure(s.pool[collateral_id], collateral_amount, payment_amount) IN
    IF collateral_amount < min_amount_out THEN Fail("BelowMinimumOutput", s)
    ELSE IF r.err # "ok" THEN Fail(r.err, s)
    ELSE
    LET s1 == [ s EXCEPT !.pool[collateral_id] = r.pool ]
        s2 == [ s1 EXCEPT !.fees[collateral_id] = @ + fees_amount_in_collateral ] IN
    IF ~ledger_ok THEN Fail("InsufficientBalance", s2)
    ELSE Ok(s2, collateral_amount)

buy_collateral(s, payment_token, payment_amount, collateral_id, min_amount_out, ledger_ok) ==
    IF payment_token # StablecoinTokenId THEN Fail("WrongPaymentToken", s)
    ELSE IF collateral_id \notin collateral_whitelist THEN Fail("UnknownCollateral", s)
    ELSE IF price[collateral_id] = NoPrice THEN Fail("PriceUnavailable", s)
    ELSE
    LET collateral_value_in_dollars == price[collateral_id]
        total_value_in_collateral == payment_amount \div collateral_value_in_dollars
        transaction_fees_percentage == get_burn_transaction_fees_percentage(s, collateral_id)
        fees_amount_in_collateral ==
            calculate_percentage_of(transaction_fees_percentage, total_value_in_collateral) IN
    IF fees_amount_in_collateral > total_value_in_collateral
    THEN Fail("BigUintSubNegative", s)
    ELSE
    LET collateral_amount == total_value_in_collateral - fees_amount_in_collateral
        r == buy_closure(s.pool[collateral_id], collateral_amount, payment_amount) IN
    IF collateral_amount < min_amount_out THEN Fail("BelowMinimumOutput", s)
    ELSE IF r.err # "ok" THEN Fail(r.err, s)
    ELSE
    LET s1 == [ s EXCEPT !.pool[collateral_id] = r.pool ]
        s2 == [ s1 EXCEPT !.fees[collateral_id] = @ + fees_amount_in_collateral ] IN
    IF ~ledger_ok THEN Fail("InsufficientBalance", s2)
    ELSE Ok(s2, collateral_amount)

\* ------------------------------------------------------------ hedging margin engine

calculate_limit_hedge_amount(collateral_amount) ==
    calculate_percentage_of(limit_hedge_percentage, collateral_amount)

\* The close-position collaborator: settles the covered amount against the Pool.
close_position(s, hp) ==
    LET p == s.pool[hp.collateral_id] IN
    IF hp.covered_amount > p.total_covered_value_in_stablecoin
    THEN Fail("BigUintSubNegative", s)
    ELSE Ok([ s EXCEPT !.pool[hp.collateral_id].total_covered_value_in_stablecoin =
                @ - hp.covered_amount ], 0)

\* The withdrawal collaborator: it fails (withdraw = NoAmount) or returns the
\* amount to withdraw and adds the withdrawal fee to the accumulated fees.
get_withdraw_amount_and_update_fees(s, hp, withdraw) ==
    IF withdraw = NoAmount THEN Fail("InsufficientBalance", s)
    ELSE [ err |-> "ok",
           st |-> [ s EXCEPT !.fees[hp.collateral_id] = @ + (hp.deposit_amount - withdraw) ],
           out |-> withdraw ]

\* Faulty variant: the force close is allowed at the limit hedge amount already.
force_close_hedging_position_at_limit(s, nft_nonce, withdraw) ==
    IF ~s.pos[nft_nonce].exists THEN Fail("PositionAlreadyLiquidated", s)
    ELSE
    LET hp == s.pos[nft_nonce]
        p == s.pool[hp.collateral_id]
        limit_hedge_amount == calculate_limit_hedge_amount(p.collateral_amount) IN
    IF ~(p.total_covered_value_in_stablecoin >= limit_hedge_amount)
    THEN Fail("ThresholdNotReached", s)
    ELSE
    LET r1 == close_position(s, hp) IN
    IF r1.err # "ok" THEN r1
    ELSE
    LET r2 == get_withdraw_amount_and_update_fees(r1.st, hp, withdraw) IN
    IF r2.err # "ok" THEN r2
    ELSE Ok([ r2.st EXCEPT !.pos[nft_nonce] =
                [ hp EXCEPT !.withdraw_amount_after_force_close = r2.out ] ], 0)

force_close_hedging_position(s, nft_nonce, withdraw) ==
    IF ~s.pos[nft_nonce].exists THEN Fail("PositionAlreadyLiquidated", s)
    ELSE
    LET hp == s.pos[nft_nonce]
        p == s.pool[hp.collateral_id]
        limit_hedge_amount == calculate_limit_hedge_amount(p.collateral_amount) IN
    IF ~(p.total_covered_value_in_stablecoin > limit_hedge_amount)
    THEN Fail("ThresholdNotReached", s)
    ELSE
    LET r1 == close_position(s, hp) IN
    IF r1.err # "ok" THEN r1
    ELSE
    LET r2 == get_withdraw_amount_and_update_fees(r1.st, hp, withdraw) IN
    IF r2.err # "ok" THEN r2
    ELSE Ok([ r2.st EXCEPT !.pos[nft_nonce] =
                [ hp EXCEPT !.withdraw_amount_after_force_close = r2.out ] ], 0)

\* value: the current price of the position's collateral.
calculate_margin_ratio(hp, value) ==
    LET amount_ratio == calculate_ratio(hp.deposit_amount, hp.covered_amount)
        price_ratio == calculate_ratio(hp.oracle_value_at_deposit_time, value)
        one == ONE IN
    IF price_ratio <= one
    THEN LET diff == one - price_ratio IN
         [ err |-> "ok", out |-> amount_ratio + diff ]
    ELSE LET diff == price_ratio - one IN
         IF diff > amount_ratio
         THEN [ err |-> "BigUintSubNegative", out |-> 0 ]
         ELSE [ err |-> "ok", out |-> amount_ratio - diff ]

\* Faulty variant: the liquidated position is settled but its record is kept.
liquidate_hedging_position_keeps_record(s, nft_nonce) ==
    IF ~s.pos[nft_nonce].exists THEN Fail("PositionAlreadyLiquidated", s)
    ELSE
    LET hp == s.pos[nft_nonce] IN
    IF hp.withdraw_amount_after_force_close # NoAmount
    THEN Fail("PositionAlreadyClosed", s)
    ELSE IF price[hp.collateral_id] = NoPrice THEN Fail("PriceUnavailable", s)
    ELSE
    LET m == calculate_margin_ratio(hp, price[hp.collateral_id]) IN
    IF m.err # "ok" THEN Fail(m.err, s)
    ELSE IF ~(m.out <= hedging_maintenance_ratio) THEN Fail("PositionStillHealthy", s)
    ELSE
    LET r1 == close_position(s, hp) IN
    IF r1.err # "ok" THEN r1
    ELSE Ok(r1.st, 0)

liquidate_hedging_position(s, nft_nonce) ==
    IF ~s.pos[nft_nonce].exists THEN Fail("PositionAlreadyLiquidated", s)
    ELSE
    LET hp == s.pos[nft_nonce] IN
    IF hp.withdraw_amount_after_force_close # NoAmount
    THEN Fail("PositionAlreadyClosed", s)
    ELSE IF price[hp.collateral_id] = NoPrice THEN Fail("PriceUnavailable", s)
    ELSE
    LET m == calculate_margin_ratio(hp, price[hp.collateral_id]) IN
    IF m.err # "ok" THEN Fail(m.err, s)
    ELSE IF ~(m.out <= hedging_maintenance_ratio) THEN Fail("PositionStillHealthy", s)
    ELSE
    LET r1 == close_position(s, hp) IN
    IF r1.err # "ok" THEN r1
    ELSE Ok([ r1.st EXCEPT !.pos[nft_nonce] = EmptyPosition ], 0)

\* ------------------------------------------------------------ transactions

\* Faulty variant: a failed call keeps the writes made before the failure.
Finish_no_revert(s, r) == r.st

\* An endpoint that returns an error signals it to the VM, which discards
\* every storage write of the call.
Finish(s, r) == IF r.err = "ok" THEN r.st ELSE s

MaxStablecoin == MaxCollateral * MaxPrice

InBounds(s) ==
    /\ \A c \in Collaterals :
          /\ s.pool[c].collateral_amount <= MaxCollateral
          /\ s.pool[c].stablecoin_amount <= MaxStablecoin
          /\ s.pool[c].collateral_reserves <= MaxCollateral
          /\ s.fees[c] <= MaxPayment
    /\ \A k \in LiqNonces : s.liq[k] <= MaxLiquidity

\* One more call is explored.
Step ==
    /\ calls_left # 0
    /\ calls_left' = IF calls_left = Unbounded THEN Unbounded ELSE calls_left - 1

\* The record of a call: its endpoint, collateral or position, outcome, the
\* amount paid, the minimum asked and the amount returned, whether a failure
\* came after a storage write, whether the call follows up the previous one (a
\* rebalance_pool after a successful rebalance_pool of the same collateral, or
\* a buy_collateral paying what the previous sell_collateral of the same
\* collateral returned), the price a rebalance_pool returns from (see
\* SetPrice), and the collateral's Pool record before the call.
Logged(op, c, n, amount, min_amount_out, r) ==
    [ op |-> op, c |-> c, n |-> n, err |-> r.err,
      amount |-> amount,
      min_amount_out |-> min_amount_out,
      out |-> r.out,
      dirty |-> (r.err # "ok" /\ r.st # Storage),
      follows |-> /\ last.c = c
                  /\ last.err = "ok"
                  /\ \/ op = "rebalance_pool" /\ last.op = "rebalance_pool"
                     \/ /\ op = "buy_collateral"
                        /\ last.op = "sell_collateral"
                        /\ last.out = amount,
      returns |-> IF op = "rebalance_pool" /\ last.op = "set_price" /\ last.c = c
                  THEN last.returns ELSE NoPrice,
      before |-> IF c \in Collaterals THEN pool[c] ELSE EmptyPool ]

\* One transaction: the endpoint runs, its writes are kept or discarded, and
\* the call is recorded.
Transaction(op, c, n, amount, min_amount_out, r) ==
    LET s == Finish(Storage, r) IN
    /\ InBounds(s)
    /\ pool' = s.pool
    /\ current_fee_configuration' = s.cfg
    /\ accumulated_tx_fees' = s.fees
    /\ collateral_amount_for_liq_token' = s.liq
    /\ hedging_position' = s.pos
    /\ last' = Logged(op, c, n, amount, min_amount_out, r)
    /\ Step
    /\ UNCHANGED << last_nft_nonce, collateral_whitelist, collateral_precision, price >>

\* A call of an endpoint that takes no minimum amount.
Call(op, c, n, amount, r) == Transaction(op, c, n, amount, 0, r)

NoCall ==
    [ op |-> "init", c |-> "", n |-> 0, err |-> "ok", amount |-> 0, min_amount_out |-> 0,
      out |-> 0, returns |-> NoPrice,
      dirty |-> FALSE, follows |-> FALSE, before |-> EmptyPool ]

\* The contract after deployment and configuration: nothing deposited yet.
InitStorage ==
    /\ pool = [ c \in Collaterals |-> EmptyPool ]
    /\ current_fee_configuration = [ c \in Collaterals |-> EmptyFeeConfiguration ]
    /\ accumulated_tx_fees = [ c \in Collaterals |-> 0 ]
    /\ collateral_amount_for_liq_token = [ k \in LiqNonces |-> 0 ]
    /\ hedging_position = [ n \in Nonces |-> EmptyPosition ]
    /\ last_nft_nonce = 0
    /\ collateral_whitelist = {"A"}
    /\ \E q \in Precisions : collateral_precision = [ c \in Collaterals |-> q ]
    /\ price = [ c \in Collaterals |-> IF c = "A" THEN ONE ELSE NoPrice ]
    /\ last = NoCall

Init == InitStorage /\ calls_left = Unbounded

\* The same initial state, explored for MaxCalls calls.
InitBounded == InitStorage /\ calls_left = MaxCalls

RebalancePool ==
    \E c \in Collaterals : Call("rebalance_pool", c, 0, 0, rebalance_pool(Storage, c))

UpdateFeesPercentage ==
    \E c \in collateral_whitelist, m \in FeePercentages, b \in FeePercentages :
        Call("update_fees_percentage", c, 0, 0, update_fees_percentage(Storage, c, m, b))

SplitFees ==
    \E c \in collateral_whitelist : Call("split_fees", c, 0, accumulated_tx_fees[c], split_fees(Storage, c))

\* Every payment of a whitelisted collateral, with a Token Ledger that mints.
SellCalls ==
    { [ token |-> t, amount |-> a, min |-> 0, ok |-> TRUE ] :
        t \in collateral_whitelist, a \in 0 .. MaxPayment }

SellCollateral ==
    \E x \in SellCalls :
        Transaction("sell_collateral", x.token, 0, x.amount, x.min,
                    sell_collateral(Storage, x.token, x.amount, x.min, x.ok))

\* One call of sell_collateral for each way it is refused outright: a minimum too
\* high, a Token Ledger that refuses to mint (for an empty and for a full
\* payment), a token that is not whitelisted.
SellCallsRefused ==
    { [ token |-> t, amount |-> MaxPayment, min |-> MaxStablecoin + 1, ok |-> TRUE ] :
        t \in collateral_whitelist }
    \cup { [ token |-> t, amount |-> a, min |-> 0, ok |-> FALSE ] :
             t \in collateral_whitelist, a \in {0, MaxPayment} }
    \cup { [ token |-> t, amount |-> 1, min |-> 0, ok |-> TRUE ] :
             t \in PaymentTokens \ collateral_whitelist }

SellCollateralRefused ==
    \E x \in SellCallsRefused :
        Transaction("sell_collateral", x.token, 0, x.amount, x.min,
                    sell_collateral(Storage, x.token, x.amount, x.min, x.ok))

StablecoinPayments == { k * v : k \in 0 .. MaxPayment, v \in Prices }

\* Every stablecoin payment for a whitelisted collateral, with a Token Ledger
\* that burns and sends.
BuyCalls ==
    { [ token |-> StablecoinTokenId, amount |-> a, c |-> c, min |-> 0, ok |-> TRUE ] :
        a \in StablecoinPayments, c \in collateral_whitelist }

BuyCollateral ==
    \E x \in BuyCalls :
        Transaction("buy_collateral", x.c, 0, x.amount, x.min,
                    buy_collateral(Storage, x.token, x.amount, x.c, x.min, x.ok))

\* One call of buy_collateral for each way it is refused outright: a minimum too
\* high, a Token Ledger that refuses (for an empty and for a full payment), a
\* collateral that is not whitelisted, a payment in another token.
BuyCallsRefused ==
    { [ token |-> StablecoinTokenId, amount |-> MaxPrice, c |-> c,
        min |-> MaxCollateral + 1, ok |-> TRUE ] : c \in collateral_whitelist }
    \cup { [ token |-> StablecoinTokenId, amount |-> a, c |-> c, min |-> 0, ok |-> FALSE ] :
             a \in {0, MaxPrice}, c \in collateral_whitelist }
    \cup { [ token |-> StablecoinTokenId, amount |-> MaxPrice, c |-> c, min |-> 0,
             ok |-> TRUE ] : c \in Collaterals \ collateral_whitelist }
    \cup { [ token |-> c, amount |-> MaxPrice, c |-> c, min |-> 0, ok |-> TRUE ] :
             c \in collateral_whitelist }

BuyCollateralRefused ==
    \E x \in BuyCallsRefused :
        Transaction("buy_collateral", x.c, 0, x.amount, x.min,
                    buy_collateral(Storage, x.token, x.amount, x.c, x.min, x.ok))

ForceCloseHedgingPosition ==
    \E n \in Nonces :
      \E w \in {NoAmount} \cup (0 .. hedging_position[n].deposit_amount) :
        Call("force_close_hedging_position", "", n, 0,
             force_close_hedging_position(Storage, n, w))

LiquidateHedgingPosition ==
    \E n \in Nonces :
        Call("liquidate_hedging_position", "", n, 0, liquidate_hedging_position(Storage, n))

\* The open-position collaborator: mints the next hedging NFT and records the position.
OpenHedgingPosition ==
    \E c \in collateral_whitelist, covered \in CoveredAmounts,
       deposit \in DepositAmounts :
        /\ last_nft_nonce < MaxPositions
        /\ price[c] # NoPrice
        /\ last_nft_nonce' = last_nft_nonce + 1
        /\ hedging_position' =
              [ hedging_position EXCEPT ![last_nft_nonce + 1] =
                  [ exists |-> TRUE, collateral_id |-> c,
                    deposit_amount |-> deposit, covered_amount |-> covered,
                    oracle_value_at_deposit_time |-> price[c],
                    withdraw_amount_after_force_close |-> NoAmount ] ]
        /\ pool' = [ pool EXCEPT ![c].total_covered_value_in_stablecoin = @ + covered ]
        /\ last' = [ NoCall EXCEPT !.op = "open_position", !.c = c,
                                   !.n = last_nft_nonce + 1, !.amount = covered ]
        /\ Step
        /\ UNCHANGED << current_fee_configuration, accumulated_tx_fees,
                        collateral_amount_for_liq_token, collateral_whitelist,
                        collateral_precision, price >>

\* The quote v takes the price of c back down to a price at which the pool was
\* marked to market before the successful rebalance_pool(c) that was just made.
ReturnsTo(c, v) ==
    /\ last.op = "rebalance_pool"
    /\ last.err = "ok"
    /\ last.c = c
    /\ v < price[c]
    /\ last.before.stablecoin_amount =
           multiply(last.before.collateral_amount, v, collateral_precision[c])

\* The Price Feed publishes a new quote; the record keeps the quote it replaces
\* when the new one undoes a rise that was just rebalanced.
SetPrice ==
    \E c \in collateral_whitelist, v \in Prices :
        /\ v # price[c]
        /\ price' = [ price EXCEPT ![c] = v ]
        /\ last' = [ NoCall EXCEPT !.op = "set_price", !.c = c, !.amount = v,
                                   !.returns = IF ReturnsTo(c, v) THEN price[c] ELSE NoPrice ]
        /\ Step
        /\ UNCHANGED << pool, current_fee_configuration, accumulated_tx_fees,
                        collateral_amount_for_liq_token, hedging_position,
                        last_nft_nonce, collateral_whitelist, collateral_precision >>

\* The Price Feed's quote goes stale.
StalePrice ==
    \E c \in collateral_whitelist :
        /\ price[c] # NoPrice
        /\ price' = [ price EXCEPT ![c] = NoPrice ]
        /\ last' = [ NoCall EXCEPT !.op = "stale_price", !.c = c ]
        /\ Step
        /\ UNCHANGED << pool, current_fee_configuration, accumulated_tx_fees,
                        collateral_amount_for_liq_token, hedging_position,
                        last_nft_nonce, collateral_whitelist, collateral_precision >>

Next ==
    \/ RebalancePool
    \/ UpdateFeesPercentage
    \/ SplitFees
    \/ SellCollateral
    \/ SellCollateralRefused
    \/ BuyCollateral
    \/ BuyCollateralRefused
    \/ ForceCloseHedgingPosition
    \/ LiquidateHedgingPosition
    \/ OpenHedgingPosition
    \/ SetPrice
    \/ StalePrice

\* Every operation, over all runs of at most MaxCalls calls.
Spec == InitBounded /\ [][Next]_vars

\* The pool, fee and swap operations alone, called with a token the contract
\* takes and a Token Ledger that works: no hedging position is ever opened.
NextPool ==
    \/ RebalancePool
    \/ UpdateFeesPercentage
    \/ SplitFees
    \/ SellCollateral
    \/ BuyCollateral
    \/ SetPrice

SpecPool == Init /\ [][NextPool]_vars

\* The hedging operations, with the swaps that move the pool's collateral.
NextHedging ==
    \/ OpenHedgingPosition
    \/ ForceCloseHedgingPosition
    \/ LiquidateHedgingPosition
    \/ SellCollateral
    \/ SetPrice

\* Hedging reads no precision: one is enough.
InitHedging == Init /\ \A c \in Collaterals : collateral_precision[c] = 1

SpecHedging == InitHedging /\ [][NextHedging]_vars

\* ------------------------------------------------------------ properties

\* Two whitelisted collaterals of different precisions, each quoted at 1.0
\* dollar, explored for MaxCalls calls of the pool, fee and swap operations.
InitTwoCollaterals ==
    /\ pool = [ c \in Collaterals |-> EmptyPool ]
    /\ current_fee_configuration = [ c \in Collaterals |-> EmptyFeeConfiguration ]
    /\ accumulated_tx_fees = [ c \in Collaterals |-> 0 ]
    /\ collateral_amount_for_liq_token = [ k \in LiqNonces |-> 0 ]
    /\ hedging_position = [ n \in Nonces |-> EmptyPosition ]
    /\ last_nft_nonce = 0
    /\ collateral_whitelist = Collaterals
    /\ collateral_precision =
          [ c \in Collaterals |->
              IF c = "A" THEN CHOOSE q \in Precisions : \A w \in Precisions : q <= w
                         ELSE CHOOSE q \in Precisions : \A w \in Precisions : w <= q ]
    /\ price = [ c \in Collaterals |-> ONE ]
    /\ last = NoCall
    /\ calls_left = MaxCalls

SpecTwoCollaterals == InitTwoCollaterals /\ [][NextPool]_vars

Succeeded(op) == last.op = op /\ last.err = "ok"

\* What the last call's collateral is worth at the Price Feed's quote.
PoolValueBefore ==
    multiply(last.before.collateral_amount, price[last.c], collateral_precision[last.c])

\* The last call is a rebalance_pool that passed the whitelist and the Price Feed.
Rebalanced ==
    /\ last.op = "rebalance_pool"
    /\ last.c \in collateral_whitelist
    /\ price[last.c] # NoPrice

RebalanceMarksToMarket ==
    Succeeded("rebalance_pool") =>
        pool[last.c].stablecoin_amount =
            multiply(pool[last.c].collateral_amount, price[last.c],
                     collateral_precision[last.c])

\* A rebalance that found the collateral appreciated and credited the reserves.
RebalancedAfterAppreciation ==
    /\ Succeeded("rebalance_pool")
    /\ last.before.stablecoin_amount > 0
    /\ PoolValueBefore > last.before.stablecoin_amount
    /\ pool[last.c].collateral_reserves > last.before.collateral_reserves

\* C3: when the price has fallen (pool value <= stablecoin_amount), the
\* rebalance succeeds and draws exactly missing_collateral from the reserves
\* if they hold that much, and otherwise fails with InsufficientReserves
\* leaving the Pool record untouched.
DepreciationDrawsReserves ==
    (Rebalanced /\ PoolValueBefore <= last.before.stablecoin_amount) =>
        LET missing_collateral ==
                divide(last.before.stablecoin_amount - PoolValueBefore,
                       price[last.c], collateral_precision[last.c]) IN
        IF missing_collateral <= last.before.collateral_reserves
        THEN /\ last.err = "ok"
             /\ pool[last.c].collateral_reserves =
                    last.before.collateral_reserves - missing_collateral
             /\ pool[last.c].collateral_amount = last.before.collateral_amount
        ELSE /\ last.err = "InsufficientReserves"
             /\ pool[last.c] = last.before

\* A rebalance after a fall of the price that drew from the reserves.
RebalanceDrewReserves ==
    /\ Succeeded("rebalance_pool")
    /\ PoolValueBefore < last.before.stablecoin_amount
    /\ pool[last.c].collateral_reserves < last.before.collateral_reserves

\* The pool was balanced at the price p0, lower than the price of the rebalance.
BalancedAtLowerPrice(p0) ==
    /\ Rebalanced
    /\ p0 < price[last.c]
    /\ last.before.collateral_amount > 0
    /\ last.before.stablecoin_amount =
           multiply(last.before.collateral_amount, p0, collateral_precision[last.c])

\* C4 as stated: rebalancing a pool balanced at P0 at a price P1 > P0 strictly
\* increases collateral_reserves, by (collateral_amount*(P1-P0))/P1, and sets
\* stablecoin_amount to collateral_amount*P1.
AppreciationStrictlyGrowsReserves ==
    \A p0 \in Prices :
        BalancedAtLowerPrice(p0) =>
            /\ last.err = "ok"
            /\ pool[last.c].collateral_reserves > last.before.collateral_reserves
            /\ pool[last.c].collateral_reserves - last.before.collateral_reserves =
                   divide(multiply(last.before.collateral_amount, price[last.c] - p0,
                                   collateral_precision[last.c]),
                          price[last.c], collateral_precision[last.c])
            /\ pool[last.c].stablecoin_amount = PoolValueBefore

\* C4 amended: rebalancing a pool balanced at P0 at a price P1 > P0 succeeds,
\* adds divide(pool_value - stablecoin_amount, P1, precision) to
\* collateral_reserves, which truncation can make zero, and sets
\* stablecoin_amount to the pool value at P1.
AppreciationGrowsReserves ==
    \A p0 \in Prices :
        BalancedAtLowerPrice(p0) =>
            /\ last.err = "ok"
            /\ pool[last.c].collateral_reserves >= last.before.collateral_reserves
            /\ pool[last.c].collateral_reserves - last.before.collateral_reserves =
                   divide(PoolValueBefore - last.before.stablecoin_amount,
                          price[last.c], collateral_precision[last.c])
            /\ pool[last.c].stablecoin_amount = PoolValueBefore
            /\ pool[last.c].collateral_amount = last.before.collateral_amount

\* A rebalance at a higher price that credited nothing: the credit truncated to zero.
AppreciationCreditedNothing ==
    /\ \E p0 \in Prices : BalancedAtLowerPrice(p0)
    /\ last.err = "ok"
    /\ PoolValueBefore > last.before.stablecoin_amount
    /\ pool[last.c].collateral_reserves = last.before.collateral_reserves

\* The margin ratio as the formula of calculate_margin_ratio's comment gives
\* it, over the integers: x / y + (1 - initial_oracle / current_oracle).
SignedMarginRatio(hp, value) ==
    calculate_ratio(hp.deposit_amount, hp.covered_amount)
        + (ONE - calculate_ratio(hp.oracle_value_at_deposit_time, value))

\* The position is open: neither liquidated nor force closed.
IsOpen(hp) == hp.exists /\ hp.withdraw_amount_after_force_close = NoAmount

\* C5: liquidate_hedging_position succeeds on an open position whenever its
\* margin ratio is at most hedging_maintenance_ratio, also when the margin is
\* negative.
LiquidationOfUnhealthySucceeds ==
    [][ \A n \in Nonces :
          ( /\ last'.op = "liquidate_hedging_position"
            /\ last'.n = n
            /\ IsOpen(hedging_position[n])
            /\ price[hedging_position[n].collateral_id] # NoPrice
            /\ SignedMarginRatio(hedging_position[n],
                                 price[hedging_position[n].collateral_id])
                   <= hedging_maintenance_ratio )
          => last'.err = "ok" ]_vars

\* C6: force closed and liquidated are terminal: a force close or a
\* liquidation succeeds only on a position that is neither force closed nor
\* liquidated yet.
ClosedAndLiquidatedAreTerminal ==
    [][ \A n \in Nonces :
          ( /\ last'.op \in {"force_close_hedging_position", "liquidate_hedging_position"}
            /\ last'.n = n
            /\ last'.err = "ok" )
          => IsOpen(hedging_position[n]) ]_vars

\* C7: split_fees(c) with A accumulated succeeds, leaves AccumulatedFees(c) = 0,
\* adds lp_share = percentage_of(liq_provider_fee_reward_percentage, A) to the
\* liquidity share balance of c and leftover = A - lp_share to the pool's
\* collateral_reserves, and lp_share + leftover = A.
SplitFeesConserves ==
    [][ \A c \in Collaterals :
          (last'.op = "split_fees" /\ last'.c = c) =>
              LET A == accumulated_tx_fees[c]
                  k == liq_sft_nonce_for_collateral(c)
                  lp_share ==
                      calculate_percentage_of(liq_provider_fee_reward_percentage, A)
                  credited == collateral_amount_for_liq_token'[k]
                                  - collateral_amount_for_liq_token[k]
                  reserved == pool'[c].collateral_reserves - pool[c].collateral_reserves IN
              /\ last'.err = "ok"
              /\ accumulated_tx_fees'[c] = 0
              /\ credited = lp_share
              /\ reserved = A - lp_share
              /\ credited + reserved = A ]_vars

\* A split that credited both the liquidity share and the reserves.
SplitBothWays ==
    /\ Succeeded("split_fees")
    /\ last.amount >= 2
    /\ collateral_amount_for_liq_token[liq_sft_nonce_for_collateral(last.c)] > 0
    /\ pool[last.c].collateral_reserves > last.before.collateral_reserves
    /\ accumulated_tx_fees[last.c] = 0

\* The step is a buy_collateral that pays back exactly the stablecoin the
\* sell_collateral just before it returned, for the same collateral.
RoundTrip ==
    /\ last.op = "sell_collateral"
    /\ last.err = "ok"
    /\ last.amount > 0
    /\ last'.op = "buy_collateral"
    /\ last'.err = "ok"
    /\ last'.follows

\* C8 as stated: the round trip returns at most the collateral paid, and
\* exactly the collateral paid only when the mint and burn fee percentages are
\* both zero.
RoundTripEqualOnlyWithZeroPercentages ==
    [][ RoundTrip =>
          /\ last'.out <= last.amount
          /\ last'.out = last.amount =>
                /\ current_fee_configuration[last.c].mint_fee_percentage = 0
                /\ current_fee_configuration[last.c].burn_fee_percentage = 0 ]_vars

\* C8 amended: the round trip returns the payment less the two truncated fee
\* amounts, so at most the collateral paid, and exactly the collateral paid
\* when and only when both fee amounts truncate to zero.
RoundTripReturnsPaymentLessFees ==
    [][ RoundTrip =>
          LET mint_fee ==
                  calculate_percentage_of(
                      current_fee_configuration[last.c].mint_fee_percentage, last.amount)
              burn_fee ==
                  calculate_percentage_of(
                      current_fee_configuration[last.c].burn_fee_percentage,
                      last.amount - mint_fee) IN
          /\ last'.out = last.amount - mint_fee - burn_fee
          /\ last'.out <= last.amount
          /\ last'.out = last.amount <=> (mint_fee = 0 /\ burn_fee = 0) ]_vars

\* A round trip that returned the whole payment under non-zero fee percentages.
RoundTripFreeUnderFees ==
    /\ Succeeded("buy_collateral")
    /\ last.follows
    /\ last.out > 0
    /\ last.out = last.before.collateral_amount
    /\ current_fee_configuration[last.c].mint_fee_percentage > 0
    /\ current_fee_configuration[last.c].burn_fee_percentage > 0
    /\ accumulated_tx_fees[last.c] = 0
    /\ pool[last.c].collateral_amount = 0

\* What buy_collateral returns for the payment at the current price and burn fee.
CollateralBought(c, payment_amount) ==
    LET total_value_in_collateral == payment_amount \div price[c] IN
    total_value_in_collateral
        - calculate_percentage_of(current_fee_configuration[c].burn_fee_percentage,
                                  total_value_in_collateral)

\* C9: the four fields of every Pool record are never negative; a
\* buy_collateral succeeds only when the pool holds the collateral returned
\* and the stablecoin paid, and one that passes the earlier checks but would
\* overdraw the pool fails with InsufficientPoolCollateral or
\* ExcessiveStablecoinPayment; a rebalance succeeds only when the reserves
\* cover the draw.
PoolNeverNegative ==
    /\ \A c \in Collaterals :
          /\ pool[c].collateral_amount >= 0
          /\ pool[c].stablecoin_amount >= 0
          /\ pool[c].collateral_reserves >= 0
          /\ pool[c].total_covered_value_in_stablecoin >= 0
    /\ Succeeded("buy_collateral") =>
          /\ last.before.collateral_amount >= last.out
          /\ last.before.stablecoin_amount >= last.amount
    /\ ( /\ last.op = "buy_collateral"
         /\ last.err \notin {"WrongPaymentToken", "UnknownCollateral", "PriceUnavailable",
                             "BelowMinimumOutput", "BigUintSubNegative"}
         /\ \/ last.before.collateral_amount < CollateralBought(last.c, last.amount)
            \/ last.before.stablecoin_amount < last.amount )
       => last.err \in {"InsufficientPoolCollateral", "ExcessiveStablecoinPayment"}
    /\ (Succeeded("rebalance_pool") /\ PoolValueBefore <= last.before.stablecoin_amount) =>
          divide(last.before.stablecoin_amount - PoolValueBefore, price[last.c],
                 collateral_precision[last.c]) <= last.before.collateral_reserves

\* A buy_collateral refused because it would have overdrawn the pool.
BuyRefusedForOverdraw ==
    /\ last.op = "buy_collateral"
    /\ last.err \in {"InsufficientPoolCollateral", "ExcessiveStablecoinPayment"}
    /\ last.before.collateral_amount > 0
    /\ \/ last.before.collateral_amount < CollateralBought(last.c, last.amount)
       \/ last.before.stablecoin_amount < last.amount

\* C10: a rebalance_pool that directly follows a successful rebalance_pool of
\* the same collateral, at the same price, succeeds and leaves
\* stablecoin_amount and collateral_reserves unchanged.
SecondRebalanceIsNoOp ==
    (last.op = "rebalance_pool" /\ last.follows) =>
        /\ last.err = "ok"
        /\ pool[last.c].stablecoin_amount = last.before.stablecoin_amount
        /\ pool[last.c].collateral_reserves = last.before.collateral_reserves

\* A second rebalance in a row, of a pool that holds collateral and reserves.
RebalancedTwice ==
    /\ Succeeded("rebalance_pool")
    /\ last.follows
    /\ pool[last.c].collateral_amount > 0
    /\ pool[last.c].collateral_reserves > 0

\* C11: force_close_hedging_position on a recorded position fails with
\* ThresholdNotReached unless the pool's total_covered_value_in_stablecoin is
\* strictly greater than the limit hedge amount of its collateral_amount; when
\* it succeeds the record is still there, unchanged but for
\* withdraw_amount_after_force_close, which holds the amount the withdrawal
\* collaborator returned (the deposit less the fee it accumulated).
ForceCloseNeedsThreshold ==
    [][ \A n \in Nonces :
          ( /\ last'.op = "force_close_hedging_position"
            /\ last'.n = n
            /\ hedging_position[n].exists )
          => LET hp == hedging_position[n]
                 c == hp.collateral_id
                 limit_hedge_amount == calculate_limit_hedge_amount(pool[c].collateral_amount)
                 fee == accumulated_tx_fees'[c] - accumulated_tx_fees[c] IN
             /\ ~(pool[c].total_covered_value_in_stablecoin > limit_hedge_amount)
                   => last'.err = "ThresholdNotReached"
             /\ last'.err = "ok"
                   => /\ pool[c].total_covered_value_in_stablecoin > limit_hedge_amount
                      /\ hedging_position'[n].withdraw_amount_after_force_close # NoAmount
                      /\ hedging_position'[n] =
                            [ hp EXCEPT !.withdraw_amount_after_force_close =
                                            hp.deposit_amount - fee ] ]_vars

\* A force close succeeded on a pool that holds collateral, and the position
\* carries the amount to withdraw.
ForceClosedAboveLimit ==
    /\ Succeeded("force_close_hedging_position")
    /\ hedging_position[last.n].exists
    /\ hedging_position[last.n].withdraw_amount_after_force_close # NoAmount
    /\ pool[hedging_position[last.n].collateral_id].collateral_amount > 0

\* C12: liquidate_hedging_position on an open position whose margin ratio is
\* strictly greater than hedging_maintenance_ratio fails with
\* PositionStillHealthy and leaves every position record as it was; when the
\* liquidation succeeds the record is deleted and holds no withdrawal amount.
LiquidationNeedsThinMargin ==
    [][ \A n \in Nonces :
          ( /\ last'.op = "liquidate_hedging_position"
            /\ last'.n = n
            /\ IsOpen(hedging_position[n])
            /\ price[hedging_position[n].collateral_id] # NoPrice )
          => /\ SignedMarginRatio(hedging_position[n],
                                  price[hedging_position[n].collateral_id])
                    > hedging_maintenance_ratio
                   => /\ last'.err = "PositionStillHealthy"
                      /\ hedging_position' = hedging_position
             /\ last'.err = "ok"
                   => /\ hedging_position'[n] = EmptyPosition
                      /\ ~hedging_position'[n].exists
                      /\ hedging_position'[n].withdraw_amount_after_force_close = NoAmount
                      /\ \A k \in Nonces \ {n} : hedging_position'[k] = hedging_position[k] ]_vars

\* A liquidation succeeded and erased the record of a position that was opened.
LiquidatedAndErased ==
    /\ Succeeded("liquidate_hedging_position")
    /\ last.n <= last_nft_nonce
    /\ ~hedging_position[last.n].exists

\* C13: a successful sell_collateral(c, payment, min_out) at price P with
\* fee = percentage_of(mint_fee_percentage, payment) adds payment - fee to the
\* pool's collateral_amount, stablecoin_out = P * (payment - fee) to its
\* stablecoin_amount and fee to the accumulated fees of c, and mints exactly
\* stablecoin_out; when stablecoin_out < min_out the call fails with
\* BelowMinimumOutput and changes nothing, and that is its only use of min_out.
SellCreditsPoolAndFees ==
    [][ \A c \in collateral_whitelist :
          ( /\ last'.op = "sell_collateral"
            /\ last'.c = c
            /\ price[c] # NoPrice )
          => LET payment == last'.amount
                 fee == calculate_percentage_of(
                            current_fee_configuration[c].mint_fee_percentage, payment)
                 stablecoin_out == price[c] * (payment - fee) IN
             /\ last'.err = "ok"
                   => /\ pool'[c] =
                            [ pool[c] EXCEPT !.collateral_amount = @ + (payment - fee),
                                             !.stablecoin_amount = @ + stablecoin_out ]
                      /\ accumulated_tx_fees'[c] = accumulated_tx_fees[c] + fee
                      /\ last'.out = stablecoin_out
                      /\ stablecoin_out >= last'.min_amount_out
             /\ stablecoin_out < last'.min_amount_out
                   => /\ last'.err = "BelowMinimumOutput"
                      /\ UNCHANGED << pool, current_fee_configuration, accumulated_tx_fees,
                                      collateral_amount_for_liq_token, hedging_position >>
             /\ stablecoin_out >= last'.min_amount_out
                   => last'.err \in {"ok", "LocalMintRoleMissing"} ]_vars

\* A sale that paid a fee: the pool, the accumulated fees and the caller each
\* got their part.
SoldWithFee ==
    /\ Succeeded("sell_collateral")
    /\ last.out > 0
    /\ accumulated_tx_fees[last.c] > 0
    /\ pool[last.c].collateral_amount > last.before.collateral_amount
    /\ pool[last.c].collateral_amount - last.before.collateral_amount < last.amount

\* C14: in every reachable state, rebalance_pool, sell_collateral and
\* buy_collateral for a collateral that is not whitelisted fail with
\* UnknownCollateral, and buy_collateral paid in another token than the
\* stablecoin fails with WrongPaymentToken, whatever the collateral; the
\* failure comes before any write and the transaction changes nothing. The
\* calls made so far ended that way.
UnknownTokensRefused ==
    /\ \A c \in Collaterals \ collateral_whitelist :
          /\ rebalance_pool(Storage, c) = Fail("UnknownCollateral", Storage)
          /\ \A a \in 0 .. MaxPayment, m \in {0, 1}, ok \in BOOLEAN :
                /\ sell_collateral(Storage, c, a, m, ok) = Fail("UnknownCollateral", Storage)
                /\ Finish(Storage, sell_collateral(Storage, c, a, m, ok)) = Storage
          /\ \A a \in StablecoinPayments, m \in {0, 1}, ok \in BOOLEAN :
                /\ buy_collateral(Storage, StablecoinTokenId, a, c, m, ok)
                       = Fail("UnknownCollateral", Storage)
                /\ Finish(Storage, buy_collateral(Storage, StablecoinTokenId, a, c, m, ok))
                       = Storage
    /\ \A t \in PaymentTokens \ {StablecoinTokenId}, c \in Collaterals :
          \A a \in StablecoinPayments, m \in {0, 1}, ok \in BOOLEAN :
              /\ buy_collateral(Storage, t, a, c, m, ok) = Fail("WrongPaymentToken", Storage)
              /\ Finish(Storage, buy_collateral(Storage, t, a, c, m, ok)) = Storage
    /\ ( /\ last.op \in {"rebalance_pool", "sell_collateral", "buy_collateral"}
         /\ last.c \notin collateral_whitelist )
       => /\ last.err \in {"UnknownCollateral", "WrongPaymentToken"}
          /\ last.op # "buy_collateral" => last.err = "UnknownCollateral"
          /\ ~last.dirty
    /\ last.err \in {"UnknownCollateral", "WrongPaymentToken"} => ~last.dirty

\* A buy_collateral for a collateral that is not whitelisted was refused while
\* the contract held collateral and fees.
BuyOfUnknownCollateralRefused ==
    /\ last.op = "buy_collateral"
    /\ last.err = "UnknownCollateral"
    /\ last.c \notin collateral_whitelist
    /\ \E c \in collateral_whitelist :
          pool[c].collateral_amount > 0 /\ accumulated_tx_fees[c] > 0

\* The step changes the liquidity share balances only as split_fees does: none
\* decreases, and one that grows is the share of the collateral split, grown
\* by lp_share.
LiquiditySharesOnlyGrowBySplit ==
    \A k \in LiqNonces :
        /\ collateral_amount_for_liq_token'[k] >= collateral_amount_for_liq_token[k]
        /\ collateral_amount_for_liq_token'[k] # collateral_amount_for_liq_token[k]
              => /\ last'.op = "split_fees"
                 /\ k = liq_sft_nonce_for_collateral(last'.c)
                 /\ collateral_amount_for_liq_token'[k] - collateral_amount_for_liq_token[k]
                        = calculate_percentage_of(liq_provider_fee_reward_percentage,
                                                  accumulated_tx_fees[last'.c])

\* The step lowers the accumulated fees of a collateral only by a split_fees
\* of that collateral, and a split_fees leaves them at zero.
FeesOnlyResetBySplit ==
    \A c \in Collaterals :
        /\ accumulated_tx_fees'[c] < accumulated_tx_fees[c]
              => last'.op = "split_fees" /\ last'.c = c
        /\ (last'.op = "split_fees" /\ last'.c = c) => accumulated_tx_fees'[c] = 0

PoolOperations(c) ==
    { [ op |-> "rebalance_pool", c |-> c, amount |-> 0, mint |-> 0, burn |-> 0 ],
      [ op |-> "split_fees", c |-> c, amount |-> 0, mint |-> 0, burn |-> 0 ] }
    \cup { [ op |-> "update_fees_percentage", c |-> c, amount |-> 0, mint |-> m, burn |-> b ] :
             m \in FeePercentages, b \in FeePercentages }
    \cup { [ op |-> "sell_collateral", c |-> c, amount |-> a, mint |-> 0, burn |-> 0 ] :
             a \in 1 .. MaxPayment }
    \cup { [ op |-> "buy_collateral", c |-> c, amount |-> a, mint |-> 0, burn |-> 0 ] :
             a \in StablecoinPayments \ {0} }

\* The result of the call x in the storage s.
Operation(s, x) ==
    CASE x.op = "rebalance_pool" -> rebalance_pool(s, x.c)
      [] x.op = "split_fees" -> split_fees(s, x.c)
      [] x.op = "update_fees_percentage" -> update_fees_percentage(s, x.c, x.mint, x.burn)
      [] x.op = "sell_collateral" -> sell_collateral(s, x.c, x.amount, 0, TRUE)
      [] x.op = "buy_collateral" ->
             buy_collateral(s, StablecoinTokenId, x.amount, x.c, 0, TRUE)

\* The storage after the transaction of the call x in the storage s.
After(s, x) == Finish(s, Operation(s, x))

\* C16: in every reachable state, a call of rebalance_pool,
\* update_fees_percentage, split_fees, sell_collateral or buy_collateral on a
\* collateral leaves the Pool record, fee configuration and accumulated fees of
\* every other collateral unchanged, and two calls on distinct collaterals end
\* the same way and leave the same storage in either order. (Stated of the
\* states in which a call is still made.)
CollateralsAreIndependent ==
    calls_left # 0 =>
    \A c \in Collaterals : \A d \in Collaterals \ {c} :
        \A x \in PoolOperations(c) :
            LET s == Storage
                sx == After(s, x) IN
            /\ sx.pool[d] = pool[d]
            /\ sx.cfg[d] = current_fee_configuration[d]
            /\ sx.fees[d] = accumulated_tx_fees[d]
            /\ liq_sft_nonce_for_collateral(c) < liq_sft_nonce_for_collateral(d)
                  => \A y \in PoolOperations(d) :
                        LET ry == Operation(s, y)
                            sy == Finish(s, ry)
                            rxy == Operation(sx, y) IN
                        /\ rxy.err = ry.err
                        /\ rxy.out = ry.out
                        /\ Operation(sy, x).err = Operation(s, x).err
                        /\ Finish(sx, rxy) = After(sy, x)

\* A sale of one collateral succeeded while the pool of the other held
\* collateral and fees under a fee configuration of its own.
SoldBesideAnotherPool ==
    /\ Succeeded("sell_collateral")
    /\ \E d \in Collaterals \ {last.c} :
          /\ pool[d].collateral_amount > 0
          /\ accumulated_tx_fees[d] > 0
          /\ current_fee_configuration[d] # current_fee_configuration[last.c]
    /\ pool[last.c].collateral_amount > last.before.collateral_amount

\* C17: the fee configuration of c changes only in an
\* update_fees_percentage(c), which writes the three fields together (the
\* current hedging ratio and the fee curve's two percentages) and changes no
\* Pool record, accumulated fee, liquidity share balance or position; every
\* other operation leaves the configuration as it is.
OnlyUpdateWritesFeeConfiguration ==
    [][ \A c \in Collaterals :
          /\ current_fee_configuration'[c] # current_fee_configuration[c]
                => last'.op = "update_fees_percentage" /\ last'.c = c
          /\ (last'.op = "update_fees_percentage" /\ last'.c = c)
                => /\ last'.err = "ok"
                   /\ current_fee_configuration'[c] \in
                         { [ hedging_ratio |-> calculate_current_hedging_ratio(Storage, c),
                             mint_fee_percentage |-> m,
                             burn_fee_percentage |-> b ] :
                             m \in FeePercentages, b \in FeePercentages }
                   /\ UNCHANGED << pool, accumulated_tx_fees,
                                   collateral_amount_for_liq_token, hedging_position >>
      ]_vars

\* The configuration holds the hedging ratio of its last update while a later
\* sale has changed the pool's hedging ratio.
ConfigurationOlderThanPool ==
    /\ Succeeded("sell_collateral")
    /\ current_fee_configuration[last.c].hedging_ratio > 0
    /\ current_fee_configuration[last.c].hedging_ratio
           # calculate_current_hedging_ratio(Storage, last.c)

\* The pool of c is marked to market: its stablecoin_amount is its
\* collateral_amount priced at the current quote.
MarkedToMarket(p, c) ==
    p.stablecoin_amount = multiply(p.collateral_amount, price[c], collateral_precision[c])

\* C18: a successful sell_collateral or buy_collateral on a pool that is marked
\* to market at the current price leaves it marked to market at that price, so
\* that after any number of them a rebalance_pool at the same price succeeds
\* and leaves stablecoin_amount and collateral_reserves unchanged.
SwapsKeepPoolMarkedToMarket ==
    [][ \A c \in collateral_whitelist :
          ( /\ price[c] # NoPrice
            /\ MarkedToMarket(pool[c], c)
            /\ last'.c = c )
          => /\ ( /\ last'.op \in {"sell_collateral", "buy_collateral"}
                  /\ last'.err = "ok" )
                => MarkedToMarket(pool'[c], c)
             /\ last'.op = "rebalance_pool"
                => /\ last'.err = "ok"
                   /\ pool'[c].stablecoin_amount = pool[c].stablecoin_amount
                   /\ pool'[c].collateral_reserves = pool[c].collateral_reserves
      ]_vars

\* The collateral c the contract accounts for: in the pool, in its reserves,
\* in the fees pending and in the liquidity share of c.
AccountedCollateral(p, fees, liq, c) ==
    p[c].collateral_amount + p[c].collateral_reserves + fees[c]
        + liq[liq_sft_nonce_for_collateral(c)]

\* C19: a sell_collateral, buy_collateral or split_fees on c changes the
\* collateral accounted for c by exactly the collateral the caller paid in (a
\* successful sell_collateral) less the collateral sent out (a successful
\* buy_collateral), so that it stays equal to the collateral tokens held.
SwapsAndSplitsConserveCollateral ==
    [][ \A c \in collateral_whitelist :
          ( /\ last'.op \in {"sell_collateral", "buy_collateral", "split_fees"}
            /\ last'.c = c )
          => AccountedCollateral(pool', accumulated_tx_fees',
                                 collateral_amount_for_liq_token', c)
                 - AccountedCollateral(pool, accumulated_tx_fees,
                                       collateral_amount_for_liq_token, c)
               = (IF last'.op = "sell_collateral" /\ last'.err = "ok"
                  THEN last'.amount ELSE 0)
                 - (IF last'.op = "buy_collateral" /\ last'.err = "ok"
                    THEN last'.out ELSE 0) ]_vars

\* C20: a rebalance_pool at P1 > P0 of a pool marked to market at P0, followed
\* by a rebalance_pool back at P0 with the same collateral_amount: the second
\* call draws at least what the first credited; it succeeds with
\* collateral_reserves at most their starting value, or fails with
\* InsufficientReserves, which it does exactly when the starting reserves are
\* less than the draw less the credit.
RoundTripNeverGrowsReserves ==
    (last.op = "rebalance_pool" /\ last.returns # NoPrice) =>
        LET c == last.c
            q == collateral_precision[c]
            P0 == price[c]
            P1 == last.returns
            at_P0 == multiply(last.before.collateral_amount, P0, q)
            at_P1 == multiply(last.before.collateral_amount, P1, q)
            credit == IF at_P1 > at_P0 THEN divide(at_P1 - at_P0, P1, q) ELSE 0
            draw == divide(at_P1 - at_P0, P0, q)
            start == last.before.collateral_reserves - credit IN
        /\ P1 > P0
        /\ last.before.stablecoin_amount = at_P1
        /\ draw >= credit
        /\ last.err \in {"ok", "InsufficientReserves"}
        /\ last.err = "InsufficientReserves" <=> start < draw - credit
        /\ last.err = "ok" =>
              /\ pool[c].collateral_reserves = start + credit - draw
              /\ pool[c].collateral_reserves <= start
              /\ pool[c].collateral_amount = last.before.collateral_amount

\* A price round trip ended with less reserves than it began with: the draw
\* of the way back exceeded the credit of the way up.
RoundTripLostReserves ==
    /\ Succeeded("rebalance_pool")
    /\ last.returns # NoPrice
    /\ last.before.collateral_amount > 0
    /\ pool[last.c].collateral_reserves < last.before.collateral_reserves
    /\ pool[last.c].collateral_reserves + 
          divide(last.before.stablecoin_amount - PoolValueBefore, price[last.c],
                 collateral_precision[last.c])
         = last.before.collateral_reserves

====
